---------------------------- MODULE Spec2Model ----------------------------
(***************************************************************************)
(* Model of Streamlit_App.py: a Streamlit script that is executed top to   *)
(* bottom on every (re)run.  It reads the wall clock, fetches the station  *)
(* registry through the memoized make_df, filters it, lets the user pick a *)
(* station, fetches that station's readings of the last 24 hours through   *)
(* make_df again, converts the dateTime column and renders a chart.        *)
(*                                                                         *)
(* A Python str the script looks inside (a label, a notation, a            *)
(* timestamp) is the sequence of its characters, so that slicing,          *)
(* replace() and ordering are computed character by character; a str that  *)
(* is only concatenated and compared (a URL) is a TLA+ string, and Text    *)
(* turns the former into the latter.  DataFrame cells are tagged records:  *)
(* [s |-> chars] for a str, [n |-> int] for a number, [nan |-> TRUE] for a *)
(* missing value and [ts |-> <<y,m,d,h,mi,s>>] for a parsed timestamp.     *)
(***************************************************************************)
EXTENDS Integers, Sequences, FiniteSets, TLC

VARIABLES
    pc,                 \* position of the script run
    runs,               \* number of script runs started so far
    now,                \* value datetime.now() returned at line 14
    url_formatted_dt,   \* line 15
    cache,              \* st.cache_data store of make_df: url -> DataFrame
    ret,                \* outcome of the most recent make_df call
    stations_df,        \* line 50
    map_data,           \* line 55
    station_select,     \* line 65
    station_id,         \* line 72
    filtered_by_station,\* line 78
    filtered_df,        \* line 83, dateTime column replaced at line 85
    table,              \* line 90
    shown,              \* what the presentation step rendered
    error,              \* the uncaught exception that ended the run, or "none"
    gets,               \* history: url -> number of network GETs issued for it
    requested,          \* history: urls make_df has been called with
    materialized        \* history: url -> DataFrame built when it was stored

vars == <<pc, runs, now, url_formatted_dt, cache, ret, stations_df, map_data,
          station_select, station_id, filtered_by_station, filtered_df, table,
          shown, error, gets, requested, materialized>>

\* Number of script runs (page load plus re-executions) that are explored.
MaxRuns == 3

-----------------------------------------------------------------------------
(* Python values *)

None == [none |-> TRUE]
NaN == [nan |-> TRUE]
Str(chars) == [s |-> chars]
Num(k) == [n |-> k]
Timestamp(t) == [ts |-> t]
IsStr(v) == DOMAIN v = {"s"}
IsNaN(v) == DOMAIN v = {"nan"}
IsTimestamp(v) == DOMAIN v = {"ts"}

\* The characters that occur, in ascending code point order.
Alphabet ==
    <<" ", "-", ".", "/", "0", "1", "2", "3", "4", "5", "6", "7", "8", "9",
      ":", "=", "?", "A", "B", "C", "D", "E", "F", "G", "H", "I", "J", "K",
      "L", "M", "N", "O", "P", "Q", "R", "S", "T", "U", "V", "W", "X", "Y",
      "Z", "_", "a", "b", "c", "d", "e", "f", "g", "h", "i", "j", "k", "l",
      "m", "n", "o", "p", "q", "r", "s", "t", "u", "v", "w", "x", "y", "z">>

Ord(c) == CHOOSE i \in 1..Len(Alphabet) : Alphabet[i] = c

\* Python's str ordering: lexicographic by code point.
RECURSIVE StrLess(_, _)
StrLess(a, b) ==
    IF b = <<>> THEN FALSE
    ELSE IF a = <<>> THEN TRUE
    ELSE IF Head(a) # Head(b) THEN Ord(Head(a)) < Ord(Head(b))
    ELSE StrLess(Tail(a), Tail(b))

\* A replace that stops after the first occurrence.
ReplaceFirst(str, old, new) ==
    IF \E i \in 1..Len(str) : str[i] = old
    THEN LET i == CHOOSE k \in 1..Len(str) :
                      str[k] = old /\ \A j \in 1..(k - 1) : str[j] # old
         IN SubSeq(str, 1, i - 1) \o new \o SubSeq(str, i + 1, Len(str))
    ELSE str

\* str.replace(old, new) for a one-character old.
RECURSIVE Replace(_, _, _)
Replace(str, old, new) ==
    IF str = <<>> THEN <<>>
    ELSE (IF Head(str) = old THEN new ELSE <<Head(str)>>)
         \o Replace(Tail(str), old, new)

\* The str as one value, for the places that only concatenate and compare it.
RECURSIVE Text(_)
Text(chars) == IF chars = <<>> THEN "" ELSE Head(chars) \o Text(Tail(chars))

\* The slice str[:-k] for k > 0.
DropLast(str, k) == IF Len(str) <= k THEN <<>> ELSE SubSeq(str, 1, Len(str) - k)

Digits == <<"0", "1", "2", "3", "4", "5", "6", "7", "8", "9">>

\* "%0<width>d" % k
RECURSIVE Pad(_, _)
Pad(k, width) ==
    IF width = 0 THEN <<>>
    ELSE Pad(k \div 10, width - 1) \o <<Digits[(k % 10) + 1]>>

-----------------------------------------------------------------------------
(* datetime *)

IsLeap(y) == (y % 4 = 0 /\ y % 100 # 0) \/ y % 400 = 0

DaysInMonth(y, m) ==
    IF m = 2 THEN (IF IsLeap(y) THEN 29 ELSE 28)
    ELSE IF m \in {4, 6, 9, 11} THEN 30 ELSE 31

PrevDay(d) ==
    IF d.day > 1 THEN [d EXCEPT !.day = @ - 1]
    ELSE IF d.month > 1
         THEN [d EXCEPT !.month = @ - 1, !.day = DaysInMonth(d.year, d.month - 1)]
         ELSE [d EXCEPT !.year = @ - 1, !.month = 12, !.day = 31]

\* timedelta(hours=24) of line 14.
WindowHours == 24

\* d - timedelta(hours=h), for h a multiple of 24.
RECURSIVE MinusHours(_, _)
MinusHours(d, h) == IF h < 24 THEN d ELSE MinusHours(PrevDay(d), h - 24)

\* str(datetime): "YYYY-MM-DD HH:MM:SS", followed by ".ffffff" only when the
\* microsecond field is not zero.
DatetimeStr(d) ==
    Pad(d.year, 4) \o <<"-">> \o Pad(d.month, 2) \o <<"-">> \o Pad(d.day, 2)
    \o <<" ">> \o Pad(d.hour, 2) \o <<":">> \o Pad(d.minute, 2) \o <<":">>
    \o Pad(d.second, 2)
    \o (IF d.microsecond = 0 THEN <<>> ELSE <<".">> \o Pad(d.microsecond, 6))

last_24h_datetime(t) == MinusHours(t, WindowHours)

UrlFormattedDt(t) ==
    DropLast(Replace(DatetimeStr(last_24h_datetime(t)), " ", <<"T">>), 4) \o <<"Z">>

-----------------------------------------------------------------------------
(* pandas *)

Unset == [unset |-> TRUE]

Range(f) == {f[i] : i \in DOMAIN f}

\* pd.DataFrame(items) for a list of flat objects: the columns are the union of
\* the objects' keys, a key an object lacks becomes NaN, rows keep the list
\* order and get the index labels 0, 1, ...
DataFrame(items) ==
    LET columns == UNION {DOMAIN items[i] : i \in 1..Len(items)}
    IN [columns |-> columns,
        index   |-> [i \in 1..Len(items) |-> i - 1],
        data    |-> [i \in 1..Len(items) |->
                       [c \in columns |->
                          IF c \in DOMAIN items[i] THEN items[i][c] ELSE NaN]]]

\* The members of mask among the positions from..to, in ascending order.
RECURSIVE Positions(_, _, _)
Positions(from, to, mask) ==
    IF from > to THEN <<>>
    ELSE (IF from \in mask THEN <<from>> ELSE <<>>) \o Positions(from + 1, to, mask)

\* df[mask]: the rows at the positions in mask, index labels retained.
Rows(df, mask) ==
    LET pos == Positions(1, Len(df.data), mask)
    IN [columns |-> df.columns,
        index   |-> [i \in 1..Len(pos) |-> df.index[pos[i]]],
        data    |-> [i \in 1..Len(pos) |-> df.data[pos[i]]]]

\* df[[c1, c2, ...]]
Project(df, cols) ==
    [columns |-> cols,
     index   |-> df.index,
     data    |-> [i \in 1..Len(df.data) |-> [c \in cols |-> df.data[i][c]]]]

\* df.rename(columns={old: new})
Rename(df, old, new) ==
    LET name(c) == IF c = old THEN new ELSE c
        back(c) == IF c = new /\ old \in df.columns THEN old ELSE c
        cols == {name(c) : c \in df.columns}
    IN [columns |-> cols,
        index   |-> df.index,
        data    |-> [i \in 1..Len(df.data) |-> [c \in cols |-> df.data[i][back(c)]]]]

\* dropna(how="all"): drops only the rows whose every value is missing.
DropNaAll(df) ==
    Rows(df, {i \in 1..Len(df.data) : \E c \in df.columns : ~IsNaN(df.data[i][c])})

\* df.dropna(): drops every row that holds a missing value in any column.
DropNa(df) ==
    Rows(df, {i \in 1..Len(df.data) : \A c \in df.columns : ~IsNaN(df.data[i][c])})

\* The character value of a decimal digit, or -1.
DigitVal(c) == IF \E k \in 1..10 : Digits[k] = c
               THEN (CHOOSE k \in 1..10 : Digits[k] = c) - 1 ELSE -1

TwoDigits(str, i) == 10 * DigitVal(str[i]) + DigitVal(str[i + 1])

\* Whether pd.to_datetime accepts the string; the model knows the API's format
\* "YYYY-MM-DDTHH:MM:SSZ".
IsIso(str) ==
    /\ Len(str) = 20
    /\ \A i \in {1, 2, 3, 4, 6, 7, 9, 10, 12, 13, 15, 16, 18, 19} : DigitVal(str[i]) >= 0
    /\ str[5] = "-" /\ str[8] = "-" /\ str[11] = "T"
    /\ str[14] = ":" /\ str[17] = ":" /\ str[20] = "Z"
    /\ TwoDigits(str, 6) \in 1..12
    /\ TwoDigits(str, 9) \in
         1..DaysInMonth(100 * TwoDigits(str, 1) + TwoDigits(str, 3), TwoDigits(str, 6))
    /\ TwoDigits(str, 12) < 24 /\ TwoDigits(str, 15) < 60 /\ TwoDigits(str, 18) < 60

\* pd.to_datetime of one cell: a missing value stays missing (NaT) and a
\* value that is a timestamp already is kept.
ToDatetimeCell(v) ==
    IF IsNaN(v) \/ IsTimestamp(v) THEN v
    ELSE Timestamp(<<100 * TwoDigits(v.s, 1) + TwoDigits(v.s, 3), TwoDigits(v.s, 6),
                     TwoDigits(v.s, 9), TwoDigits(v.s, 12), TwoDigits(v.s, 15),
                     TwoDigits(v.s, 18)>>)

ToDatetimeOk(df, col) ==
    \A i \in 1..Len(df.data) :
        \/ IsNaN(df.data[i][col])
        \/ IsTimestamp(df.data[i][col])
        \/ (IsStr(df.data[i][col]) /\ IsIso(df.data[i][col].s))

\* df[col] = pd.to_datetime(df[col]): the column is replaced in the object df.
ToDatetime(df, col) ==
    [df EXCEPT !.data = [i \in 1..Len(df.data) |->
                           [df.data[i] EXCEPT ![col] = ToDatetimeCell(@)]]]

\* df.transpose(): one row per column, one column per index label.
Transpose(df) ==
    [columns |-> Range(df.index),
     index   |-> df.columns,
     data    |-> [c \in df.columns |-> [i \in 1..Len(df.data) |-> df.data[i][c]]]]

-----------------------------------------------------------------------------
(* The script's constants *)

root == "http://environment.data.gov.uk/flood-monitoring/"

stations_api == root \o "id/stations"

\* The label compared against at line 50; it starts with a space.
HuscoteFAS == <<" ", "H", "u", "s", "c", "o", "t", "e", " ", "F", "A", "S">>

-----------------------------------------------------------------------------
(* The upstream API and the wall clock *)

Datetime(y, mo, d, h, mi, sec, us) ==
    [year |-> y, month |-> mo, day |-> d, hour |-> h, minute |-> mi,
     second |-> sec, microsecond |-> us]

\* Values datetime.now() returns in the runs of the page.  The first two lie in
\* the same hundredth of a second, the last has a zero microsecond field.
Times ==
    {Datetime(2024, 3, 1, 3, 4, 5, 123456), Datetime(2024, 3, 1, 3, 4, 5, 129999),
     Datetime(2024, 1, 1, 10, 20, 30, 0)}

\* Values of datetime.now() for the window computation taken alone.
WindowTimes ==
    {Datetime(d[1], d[2], d[3], h, mi, sec, us) :
        d \in {<<2024, 1, 1>>, <<2024, 3, 1>>, <<2023, 3, 1>>, <<2024, 5, 31>>,
               <<2100, 3, 1>>},
        h \in {0, 23}, mi \in {0, 59}, sec \in {0, 5},
        us \in {0, 7, 123456, 999999}}

StationA1 ==
    [label |-> Str(<<"A">>), notation |-> Str(<<"S", "_", "1", "_", "a">>),
     lat |-> Num(1), long |-> Num(2)]
StationHuscote ==
    [label |-> Str(HuscoteFAS), notation |-> Str(<<"H", "_", "0">>),
     lat |-> Num(3), long |-> Num(4)]
StationB == [label |-> Str(<<"B">>), notation |-> Str(<<"E", "_", "2">>), lat |-> Num(7)]
StationA2 ==
    [label |-> Str(<<"A">>), notation |-> Str(<<"S", "_", "9">>),
     lat |-> Num(5), long |-> Num(6)]

\* The registry: the station the script excludes, a station without a
\* longitude, and two stations that share a label.
RegistryItems == <<StationA1, StationHuscote, StationB, StationA2>>

ReadingsItems ==
    <<[dateTime |-> Str(<<"2", "0", "2", "4", "-", "0", "1", "-", "0", "1", "T",
                          "0", "0", ":", "0", "0", ":", "0", "0", "Z">>),
       value |-> Num(123)],
      [dateTime |-> Str(<<"2", "0", "2", "4", "-", "0", "1", "-", "0", "1", "T",
                          "0", "0", ":", "1", "5", ":", "0", "0", "Z">>),
       value |-> Num(125)]>>

ReadingsBadDate ==
    <<[dateTime |-> Str(<<"y", "e", "s", "t", "e", "r", "d", "a", "y">>),
       value |-> Num(123)]>>

TransportFailure == [transport |-> "failed"]
Http(status, body) == [transport |-> "ok", status |-> status, body |-> body]
NotJson == [notjson |-> TRUE]
JsonItems(items) == [items |-> items]
JsonNoItems == [message |-> "no items"]

\* What requests.get(url) may meet.
Responses(url) ==
    {TransportFailure, Http(200, NotJson), Http(404, NotJson), Http(200, JsonNoItems),
     Http(503, JsonNoItems)}
    \cup (IF url = stations_api
          THEN {Http(200, JsonItems(RegistryItems)), Http(503, JsonItems(RegistryItems)),
                Http(200, JsonItems(<<StationHuscote>>)), Http(200, JsonItems(<<>>))}
          ELSE {Http(200, JsonItems(ReadingsItems)), Http(500, JsonItems(ReadingsItems)),
                Http(200, JsonItems(ReadingsBadDate)), Http(200, JsonItems(<<>>))})

-----------------------------------------------------------------------------
(* make_df and its st.cache_data memoization *)

\* The body of make_df, lines 42-45: requests.get raises on a transport
\* failure, r.json() raises on a body that is not JSON, json["items"] raises
\* on a missing key.  The status code is not looked at.
Fetch(resp) ==
    IF resp.transport = "failed" THEN [err |-> "ConnectionError", df |-> Unset]
    ELSE IF resp.body = NotJson THEN [err |-> "JSONDecodeError", df |-> Unset]
    ELSE IF "items" \notin DOMAIN resp.body THEN [err |-> "KeyError", df |-> Unset]
    ELSE [err |-> "none", df |-> DataFrame(resp.body.items)]

\* A store that never finds an entry.
CacheNeverHit(c, url) == FALSE

\* st.cache_data keys an entry by the call's arguments: the url string.
CacheHit(c, url) == url \in DOMAIN c

\* A store that hands out the stored object itself.
CacheReadShared(c, url) == [df |-> c[url], shared |-> TRUE]

\* st.cache_data keeps a serialized value and hands out a fresh copy of it:
\* the caller's object does not share state with the entry.
CacheRead(c, url) == [df |-> c[url], shared |-> FALSE]

\* A store that keeps nothing.
CacheStoreNothing(c, url, df) == c

CacheStore(c, url, df) == [u \in DOMAIN c \cup {url} |-> IF u = url THEN df ELSE c[u]]

\* A store that remembers a failed call as an empty DataFrame.
CacheEmptyOnError(c, url) ==
    [u \in DOMAIN c \cup {url} |-> IF u = url THEN DataFrame(<<>>) ELSE c[u]]

\* What an exception inside the decorated function leaves in the store.
CacheOnError(c, url) == c

\* One call make_df(url) against the store c, the network answering resp.
MakeDf(c, url, resp) ==
    IF CacheHit(c, url)
    THEN [url |-> url, hit |-> TRUE, net |-> FALSE, resp |-> None, err |-> "none",
          df |-> CacheRead(c, url).df, shared |-> CacheRead(c, url).shared,
          store |-> c]
    ELSE LET r == Fetch(resp)
         IN [url |-> url, hit |-> FALSE, net |-> TRUE, resp |-> resp, err |-> r.err,
             df |-> r.df, shared |-> FALSE,
             store |-> IF r.err = "none" THEN CacheStore(c, url, r.df)
                       ELSE CacheOnError(c, url)]

NoCall == [url |-> "", hit |-> FALSE, net |-> FALSE, resp |-> None, err |-> "none",
           df |-> Unset, shared |-> FALSE]

Outcome(m) == [f \in DOMAIN NoCall |-> m[f]]

-----------------------------------------------------------------------------
(* The steps of the script *)

Count(f, u) == IF u \in DOMAIN f THEN f[u] ELSE [issued |-> 0, ok |-> 0]

\* The history of network calls after the call with outcome m.
Logged(m) ==
    IF ~m.net THEN gets
    ELSE [u \in DOMAIN gets \cup {m.url} |->
            IF u = m.url
            THEN [issued |-> Count(gets, u).issued + 1,
                  ok     |-> Count(gets, u).ok + (IF m.err = "none" THEN 1 ELSE 0)]
            ELSE gets[u]]

Materialized(m) ==
    IF m.net /\ m.err = "none" /\ m.url \notin DOMAIN materialized
    THEN [u \in DOMAIN materialized \cup {m.url} |->
            IF u = m.url THEN m.df ELSE materialized[u]]
    ELSE materialized

\* Bookkeeping of a make_df call.
Called(m) ==
    /\ ret' = Outcome(m)
    /\ gets' = Logged(m)
    /\ requested' = requested \cup {m.url}
    /\ materialized' = Materialized(m)

\* An exclusion that compares with the label without its leading space.
ExcludeTrimmed(df) ==
    Rows(df, {i \in 1..Len(df.data) : df.data[i]["label"] # Str(Tail(HuscoteFAS))})

\* Line 50: the rows whose label differs from " Huscote FAS".
Exclude(df) ==
    Rows(df, {i \in 1..Len(df.data) : df.data[i]["label"] # Str(HuscoteFAS)})

\* Lines 55-57.
MapData(df) == DropNa(Rename(Project(df, {"lat", "long"}), "long", "lon"))

\* Line 67: stations_df["label"].sort_values().unique(), the str labels in
\* ascending order without repetition.
Options(df) ==
    SortSeq(
        LET labels == {df.data[i]["label"].s : i \in 1..Len(df.data)}
        IN CHOOSE q \in [1..Cardinality(labels) -> labels] : Range(q) = labels,
        StrLess)

\* What st.selectbox may return: the option the user has picked, or None when
\* there is no option.
Selectable(df) ==
    IF Len(df.data) = 0 THEN {None} ELSE {Str(o) : o \in Range(Options(df))}

\* stations_df.loc[stations_df["label"] == station_select], line 73.
Matching(df, choice) ==
    Rows(df, {i \in 1..Len(df.data) : df.data[i]["label"] = choice})

\* Lines 72-76.
StationId(df, choice) ==
    LET rows == Matching(df, choice)
    IN IF "notation" \notin rows.columns THEN [err |-> "KeyError", id |-> Unset]
       ELSE IF Len(rows.data) = 0 THEN [err |-> "IndexError", id |-> Unset]
       ELSE IF ~IsStr(rows.data[1]["notation"])
            THEN [err |-> "AttributeError", id |-> Unset]
       ELSE [err |-> "none", id |-> Str(Replace(rows.data[1]["notation"].s, "_", <<>>))]

\* Lines 78-80.
FilteredByStation(id, since) ==
    root \o "id/stations/" \o Text(id) \o "/readings" \o "?since=" \o Text(since)

\* Lines 90-94.
Table(df) ==
    Transpose(Rename(Rename(Project(df, {"dateTime", "value"}),
                            "dateTime", "Date and Time"),
                     "value", "Water Level"))

Fail(e) == pc' = "error" /\ error' = e

Init ==
    /\ pc = "idle"
    /\ runs = 0
    /\ now = Unset
    /\ url_formatted_dt = Unset
    /\ cache = <<>>
    /\ ret = NoCall
    /\ stations_df = Unset
    /\ map_data = Unset
    /\ station_select = Unset
    /\ station_id = Unset
    /\ filtered_by_station = Unset
    /\ filtered_df = Unset
    /\ table = Unset
    /\ shown = Unset
    /\ error = "none"
    /\ gets = <<>>
    /\ requested = {}
    /\ materialized = <<>>

\* Lines 14-15, with the clock returning t.
ReadClock(t) ==
    /\ now' = t
    /\ url_formatted_dt' = Str(UrlFormattedDt(t))

\* A run of the script begins (the page is loaded, or an interaction or a
\* rerun request re-executes it): every name of the script is bound afresh.
Start ==
    /\ pc \in {"idle", "done", "error"}
    /\ runs < MaxRuns
    /\ runs' = runs + 1
    /\ \E t \in Times : ReadClock(t)
    /\ pc' = "load_stations"
    /\ error' = "none"
    /\ ret' = NoCall
    /\ stations_df' = Unset /\ map_data' = Unset /\ station_select' = Unset
    /\ station_id' = Unset /\ filtered_by_station' = Unset
    /\ filtered_df' = Unset /\ table' = Unset /\ shown' = Unset
    /\ UNCHANGED <<cache, gets, requested, materialized>>

\* Lines 48-58.
LoadStations ==
    /\ pc = "load_stations"
    /\ \E resp \in Responses(stations_api) :
         LET m == MakeDf(cache, stations_api, resp)
         IN /\ Called(m)
            /\ cache' = m.store
            /\ IF m.err # "none"
               THEN Fail(m.err) /\ UNCHANGED <<stations_df, map_data>>
               ELSE IF "label" \notin m.df.columns
               THEN Fail("KeyError") /\ UNCHANGED <<stations_df, map_data>>
               ELSE /\ stations_df' = Exclude(m.df)
                    /\ IF {"lat", "long"} \subseteq m.df.columns
                       THEN /\ map_data' = MapData(Exclude(m.df))
                            /\ pc' = "select"
                            /\ UNCHANGED error
                       ELSE Fail("KeyError") /\ UNCHANGED map_data
    /\ UNCHANGED <<runs, now, url_formatted_dt, station_select, station_id,
                   filtered_by_station, filtered_df, table, shown>>

\* Lines 65-80.
SelectStation ==
    /\ pc = "select"
    /\ \E choice \in Selectable(stations_df) :
         LET sid == StationId(stations_df, choice)
         IN /\ station_select' = choice
            /\ station_id' = sid.id
            /\ IF sid.err # "none"
               THEN Fail(sid.err) /\ UNCHANGED filtered_by_station
               ELSE /\ filtered_by_station' =
                         Str(FilteredByStation(sid.id.s, url_formatted_dt.s))
                    /\ pc' = "load_readings"
                    /\ UNCHANGED error
    /\ UNCHANGED <<runs, now, url_formatted_dt, cache, ret, stations_df, map_data,
                   filtered_df, table, shown, gets, requested, materialized>>

\* Lines 82-94.  The assignment at line 85 changes the object make_df
\* returned; a store entry that shared its state with it would change too.
LoadReadings ==
    /\ pc = "load_readings"
    /\ \E resp \in Responses(filtered_by_station.s) :
         LET m == MakeDf(cache, filtered_by_station.s, resp)
             parsed == ToDatetime(m.df, "dateTime")
         IN /\ Called(m)
            /\ IF m.err # "none"
               THEN /\ Fail(m.err)
                    /\ cache' = m.store
                    /\ UNCHANGED <<filtered_df, table>>
               ELSE IF "dateTime" \notin m.df.columns
               THEN /\ Fail("KeyError")
                    /\ cache' = m.store
                    /\ filtered_df' = m.df
                    /\ UNCHANGED table
               ELSE IF ~ToDatetimeOk(m.df, "dateTime")
               THEN /\ Fail("ValueError")
                    /\ cache' = m.store
                    /\ filtered_df' = m.df
                    /\ UNCHANGED table
               ELSE /\ filtered_df' = parsed
                    /\ cache' = IF m.shared
                                THEN [m.store EXCEPT ![m.url] = parsed]
                                ELSE m.store
                    /\ IF "value" \in m.df.columns
                       THEN /\ table' = Table(parsed)
                            /\ pc' = "present"
                            /\ UNCHANGED error
                       ELSE Fail("KeyError") /\ UNCHANGED table
    /\ UNCHANGED <<runs, now, url_formatted_dt, stations_df, map_data,
                   station_select, station_id, filtered_by_station, shown>>

\* Lines 105-131: the chart, and the two tables behind their checkboxes.
Present ==
    /\ pc = "present"
    /\ \E showTable \in BOOLEAN, showRaw \in BOOLEAN :
         shown' = [title |-> station_select,
                   chart |-> [i \in 1..Len(filtered_df.data) |->
                                <<filtered_df.data[i]["dateTime"],
                                  filtered_df.data[i]["value"]>>],
                   table |-> IF showTable THEN table ELSE None,
                   raw   |-> IF showRaw THEN filtered_df ELSE None]
    /\ pc' = "done"
    /\ UNCHANGED <<runs, now, url_formatted_dt, cache, ret, stations_df, map_data,
                   station_select, station_id, filtered_by_station, filtered_df,
                   table, error, gets, requested, materialized>>

Next == Start \/ LoadStations \/ SelectStation \/ LoadReadings \/ Present

Spec == Init /\ [][Next]_vars

\* Lines 14-15 alone, over a wider range of clock values.
ComputeWindow ==
    /\ \E t \in WindowTimes : ReadClock(t)
    /\ UNCHANGED <<pc, runs, cache, ret, stations_df, map_data, station_select,
                   station_id, filtered_by_station, filtered_df, table, shown,
                   error, gets, requested, materialized>>

SpecWindow == Init /\ [][ComputeWindow]_vars

-----------------------------------------------------------------------------
(* Properties *)

Issued(u) == Count(gets, u).issued
Succeeded(u) == Count(gets, u).ok

\* C1, as stated: the number of network calls equals the number of distinct
\* URL strings requested, that is, every requested URL was fetched over the
\* network exactly once.
C1_OneGetPerRequestedUrl == \A u \in requested : Issued(u) = 1

\* C1, amended: a call goes to the network exactly when its URL has no entry
\* in the store, which is when no earlier call with that URL returned a Table.
\* For every requested URL at most one network call returned a Table, and one
\* did exactly when the URL is in the store; a call served from the store
\* issues no GET; every other network call for the URL was a failure.
C1_OneSuccessfulGetPerUrl ==
    /\ \A u \in requested :
         /\ Succeeded(u) <= 1
         /\ Succeeded(u) = 1 <=> u \in DOMAIN cache
         /\ Issued(u) >= 1
    /\ DOMAIN cache \subseteq requested
    /\ ret.hit => ~ret.net /\ Succeeded(ret.url) = 1
    /\ ret.net => ~ret.hit /\ (ret.err = "none" <=> ret.url \in DOMAIN cache)

\* Two readings URLs that differ only in the since-timestamp are both in the
\* store, each fetched once, and the current call was served from the store.
C1_Witness ==
    /\ ret.hit /\ ret.url # stations_api
    /\ \E u \in DOMAIN cache \ {stations_api, ret.url} :
         /\ u # stations_api
         /\ Succeeded(u) = 1 /\ Succeeded(ret.url) = 1

\* C2: the store holds for every URL the Table that was built from the
\* network response when the URL was first fetched, and a call served from
\* the store returns a Table equal to it, whatever the script did to the
\* Tables it was given before.
C2_StoreKeepsMaterialized ==
    /\ \A u \in DOMAIN cache : u \in DOMAIN materialized /\ cache[u] = materialized[u]
    /\ ret.hit => ret.df = materialized[ret.url]

\* The readings came from the store and the script has replaced their
\* dateTime column.
C2_Witness ==
    /\ pc = "present" /\ ret.hit /\ ret.url = filtered_by_station.s
    /\ filtered_df # ret.df
    /\ runs >= 2

\* C3, as stated: the registry endpoint is requested over the network at
\* most once.
C3_RegistryRequestedAtMostOnce == Issued(stations_api) <= 1

\* C3, amended: once a fetch of the registry has succeeded (the registry is
\* in the store), no step requests the registry endpoint over the network
\* again.
C3_NoRegistryGetAfterSuccess ==
    [][(stations_api \in DOMAIN cache)
         => (Count(gets', stations_api).issued = Count(gets, stations_api).issued)
      ]_vars

\* The registry was served from the store, after a failed and a successful
\* fetch.
C3_Witness ==
    /\ pc = "select" /\ ret.hit /\ ret.url = stations_api
    /\ Issued(stations_api) = 2 /\ Succeeded(stations_api) = 1

IsFailure(resp) ==
    \/ resp.transport = "failed"
    \/ /\ resp.transport = "ok"
       /\ \/ resp.status \notin 200..299
          \/ resp.body = NotJson
          \/ "items" \notin DOMAIN resp.body

\* C4: a fetch that met a transport failure, a non-2xx status, a body that is
\* not JSON or a JSON body without items ends make_df with an error: no Table
\* is returned, nothing is stored and the run stops there.
C4_EveryFailureIsFatal ==
    (ret.net /\ IsFailure(ret.resp))
        => /\ ret.err # "none"
           /\ ret.df = Unset
           /\ pc = "error"
           /\ ret.url \notin DOMAIN cache

\* C5: the window string is the date and time 24 hours before now, written
\* YYYY-MM-DDTHH:MM:SS, optionally followed by a point and leading digits of
\* the microseconds, then Z; it holds no space.
C5_WindowWellFormed ==
    url_formatted_dt # Unset =>
        LET w == url_formatted_dt.s
            d == PrevDay(now)
            seconds == Pad(d.year, 4) \o <<"-">> \o Pad(d.month, 2) \o <<"-">>
                       \o Pad(d.day, 2) \o <<"T">> \o Pad(d.hour, 2) \o <<":">>
                       \o Pad(d.minute, 2) \o <<":">> \o Pad(d.second, 2)
            micros == Pad(d.microsecond, 6)
        IN /\ Len(w) >= 20
           /\ SubSeq(w, 1, 19) = seconds
           /\ w[Len(w)] = "Z"
           /\ \A i \in 1..Len(w) : w[i] # " "
           /\ Len(w) > 20 =>
                /\ w[20] = "."
                /\ Len(w) - 21 \in 1..6
                /\ SubSeq(w, 21, Len(w) - 1) = SubSeq(micros, 1, Len(w) - 21)

\* C6: the station identifier is the notation of the first row of the
\* filtered registry whose label is the selected one, without its
\* underscores and otherwise as it was, and the readings URL is
\* root + "id/stations/" + identifier + "/readings?since=" + window string.
C6_IdentifierAndUrl ==
    station_id # Unset =>
        LET n == Len(stations_df.data)
            IsMatch(i) == stations_df.data[i]["label"] = station_select
            first == CHOOSE i \in 1..n : IsMatch(i) /\ \A j \in 1..(i - 1) : ~IsMatch(j)
            NotUnderscore(c) == c # "_"
        IN /\ \E i \in 1..n : IsMatch(i)
           /\ station_id.s = SelectSeq(stations_df.data[first]["notation"].s, NotUnderscore)
           /\ filtered_by_station.s =
                root \o "id/stations/" \o Text(station_id.s) \o "/readings?since="
                \o Text(url_formatted_dt.s)

\* The label A is carried by two rows; the first has the notation S_1_a.
C6_Witness ==
    /\ pc = "load_readings"
    /\ station_select = Str(<<"A">>)
    /\ station_id = Str(<<"S", "1", "a">>)

\* C7: the filtered registry is the fetched registry without the rows
\* labelled " Huscote FAS", the other rows unchanged and in order; that label
\* is not among the options, is never the selection, and no row carrying it
\* is on the map.
C7_ExclusionExact ==
    stations_df # Unset =>
        LET full == cache[stations_api]
            Kept(row) == row["label"] # Str(HuscoteFAS)
            bad == {i \in 1..Len(full.data) : ~Kept(full.data[i])}
        IN /\ stations_df.data = SelectSeq(full.data, Kept)
           /\ stations_df.columns = full.columns
           /\ Len(stations_df.data) = Len(full.data) - Cardinality(bad)
           /\ \A i \in bad : full.index[i] \notin Range(stations_df.index)
           /\ \A i \in 1..Len(stations_df.data) :
                \E j \in 1..Len(full.data) :
                    /\ stations_df.index[i] = full.index[j]
                    /\ stations_df.data[i] = full.data[j]
           /\ Str(HuscoteFAS) \notin Selectable(stations_df)
           /\ station_select # Str(HuscoteFAS)
           /\ map_data # Unset =>
                \A i \in bad : full.index[i] \notin Range(map_data.index)

\* Four rows were fetched, one of them labelled " Huscote FAS"; three remain.
C7_Witness ==
    /\ pc = "select"
    /\ Len(cache[stations_api].data) = 4
    /\ \E i \in 1..4 : cache[stations_api].data[i]["label"] = Str(HuscoteFAS)
    /\ Len(stations_df.data) = 3

\* C8: the map rows are exactly the rows of the filtered registry that have
\* both coordinates, in order; the filtered registry itself still holds the
\* rows that lack one, their labels are among the options, and selecting one
\* yields its identifier.
C8_MapSubsetOnly ==
    map_data # Unset =>
        LET n == Len(stations_df.data)
            Complete(i) == /\ ~IsNaN(stations_df.data[i]["lat"])
                           /\ ~IsNaN(stations_df.data[i]["long"])
            pos == SelectSeq([i \in 1..n |-> i], Complete)
        IN /\ map_data.columns = {"lat", "lon"}
           /\ map_data.index = [k \in 1..Len(pos) |-> stations_df.index[pos[k]]]
           /\ map_data.data =
                [k \in 1..Len(pos) |->
                    [c \in {"lat", "lon"} |->
                        IF c = "lat" THEN stations_df.data[pos[k]]["lat"]
                        ELSE stations_df.data[pos[k]]["long"]]]
           /\ {"label", "notation", "lat", "long"} \subseteq stations_df.columns
           /\ \A i \in 1..n :
                ~Complete(i) =>
                    /\ stations_df.index[i] \notin Range(map_data.index)
                    /\ stations_df.data[i]["label"] \in Selectable(stations_df)
                    /\ station_select = stations_df.data[i]["label"]
                         => station_id # Unset /\ error # "IndexError"

\* Station B has no longitude: it is not on the map, it was selected and its
\* identifier was derived.
C8_Witness ==
    /\ pc = "load_readings"
    /\ station_select = Str(<<"B">>)
    /\ station_id = Str(<<"E", "2">>)
    /\ Len(map_data.data) = 2
    /\ Len(stations_df.data) = 3

\* C9: whenever the identifier derivation has run, the selected label is the
\* label of a row of the filtered registry and the lookup did not fail for
\* want of a row.
C9_SelectionIsInRegistry ==
    station_select # Unset =>
        /\ \E i \in 1..Len(stations_df.data) :
               stations_df.data[i]["label"] = station_select
        /\ error # "IndexError"

\* C10: a step in which make_df ends in an error leaves the store as it was,
\* with no entry for the URL; and a call with a URL whose earlier calls all
\* failed goes to the network again and returns what that response holds.
C10_FailureLeavesStore ==
    [][(pc \in {"load_stations", "load_readings"}) =>
         /\ ret'.err # "none" =>
              /\ cache' = cache
              /\ ret'.url \notin DOMAIN cache'
              /\ ret'.df = Unset
         /\ (Issued(ret'.url) > 0 /\ Succeeded(ret'.url) = 0) =>
              /\ ret'.net
              /\ Count(gets', ret'.url).issued = Issued(ret'.url) + 1
              /\ ret'.err = "none" => ret'.df = DataFrame(ret'.resp.body.items)
      ]_vars

\* A readings URL whose first fetch failed was fetched again, successfully,
\* while the registry stayed in the store.
C10_Witness ==
    /\ ret.net /\ ret.err = "none" /\ ret.url # stations_api
    /\ Issued(ret.url) = 2 /\ Succeeded(ret.url) = 1
    /\ stations_api \in DOMAIN cache
    /\ ret.url \in DOMAIN cache

=============================================================================
